---- MODULE Spec2Model ----
(***************************************************************************)
(* Model of the Solstice datacenter simulation engine                      *)
(* (solstice_model/solstice_framework.py, utils/cooling_manager.py,        *)
(* utils/location_manager.py, utils/carbon_intensity.py).                  *)
(*                                                                         *)
(* Units.  All quantities are integers:                                    *)
(*   - time is counted in ticks of half an hour since the start date       *)
(*     at 00:00, so that durations that are not whole hours exist;         *)
(*   - workload fractions are counted in 1/WorkloadScale;                  *)
(*   - ambient and wet-bulb temperatures are whole degrees Celsius, the    *)
(*     CRAC setpoint and the rack/water temperatures are counted in fifths *)
(*     of a degree, which makes 18.0 + 0.2*(ambient - 20.0) exact;         *)
(*   - powers are Watts, water is litres, carbon intensity is g/kWh.       *)
(* A Python dict is a record, a Python list is a sequence, a quotient      *)
(* whose value a caller only reads is kept as the pair <<num, den>>.       *)
(***************************************************************************)
EXTENDS Integers, Sequences, FiniteSets, TLC

\* ------------------------------------------------------------------------
\* Bounds of the model
\* ------------------------------------------------------------------------
MaxTicks == 3
MaxWorkloadLen == 2
MaxCapacityMW == 2
MaxAmbient == 80
MaxCallHours == 50

\* ------------------------------------------------------------------------
\* Program constants
\* ------------------------------------------------------------------------
TicksPerHour == 2
HoursPerDay == 24
WorkloadScale == 10000
Mega == 1000000
Kilo == 1000
StartYear == 2023
StartMonth == 6
StartDay == 1

EngineIds == {1, 2}

\* ------------------------------------------------------------------------
\* Sequence helpers (Python built-ins sum, max, any, zip)
\* ------------------------------------------------------------------------
RECURSIVE Sum(_)
Sum(s) == IF s = <<>> THEN 0 ELSE Head(s) + Sum(Tail(s))

RECURSIVE MaxOf(_)
MaxOf(s) == IF Len(s) = 1 THEN s[1]
            ELSE LET m == MaxOf(Tail(s)) IN IF s[1] >= m THEN s[1] ELSE m

\* Python any(): some element is truthy (non-zero)
AnyTruthy(s) == \E k \in 1..Len(s) : s[k] # 0

Min2(a, b) == IF a <= b THEN a ELSE b
Max2(a, b) == IF a >= b THEN a ELSE b

\* a / b kept exact: the pair of numerator and denominator
Ratio(n, d) == <<n, d>>

SeqsUpTo(S, n) == UNION { [1..k -> S] : k \in 0..n }

\* ------------------------------------------------------------------------
\* Timestamps: datetime arithmetic on the half-hour tick grid
\* ------------------------------------------------------------------------
TicksPerDay == HoursPerDay * TicksPerHour

HourOf(ts) == (ts \div TicksPerHour) % HoursPerDay
DayOf(ts) == StartDay + (ts \div TicksPerDay)

\* ------------------------------------------------------------------------
\* Environment: the data files the providers load.  A weather row is
\* [month, day, hour, temperature, wet_bulb], a carbon row is
\* [year, month, day, hour, carbon_intensity].
\* ------------------------------------------------------------------------
WRow(m, d, h, t, wb) ==
    [month |-> m, day |-> d, hour |-> h, temperature |-> t, wet_bulb |-> wb]
CRow(y, m, d, h, ci) ==
    [year |-> y, month |-> m, day |-> d, hour |-> h, carbon_intensity |-> ci]

WeatherTables ==
    << << WRow(6, 1, 0, 30, 20), WRow(6, 1, 1, 40, 24), WRow(6, 1, 1, 50, 26),
          WRow(6, 2, 5, 15, 10) >>,
       << WRow(6, 1, 0, 5, 2), WRow(6, 3, 7, 25, 18) >> >>

CarbonTables ==
    << << CRow(2023, 6, 1, 0, 100), CRow(2023, 6, 1, 1, 200),
          CRow(2022, 6, 1, 1, 50) >>,
       << CRow(2023, 6, 1, 0, 200), CRow(2022, 6, 1, 1, 100),
          CRow(2022, 7, 9, 1, 150) >> >>

Envs == 1..Len(WeatherTables)


\* LocationManager.WEATHER_FILES and CarbonIntensityTracker.CI_FILES: the
\* location codes that have a data file; a file is named by its code
WEATHER_FILES == {"TX", "NY", "CA", "AZ", "IL", "GA", "WA", "VA"}
CI_FILES == {"TX", "NY", "CA", "AZ", "IL", "GA", "WA", "VA"}
GRID_REGIONS == [TX |-> "ERCO", NY |-> "NYIS", CA |-> "CISO", AZ |-> "AZPS",
                 IL |-> "MISO", GA |-> "SOCO", WA |-> "BPAT", VA |-> "PJM"]

\* LocationManager._load_weather_data: the file that is loaded, or the error
LoadWeatherData(location_code) ==
    IF location_code \notin WEATHER_FILES
    THEN [raised |-> "ValueError", file |-> "none"]
    ELSE [raised |-> "none", file |-> location_code]

\* CarbonIntensityTracker.__init__: GRID_REGIONS.get(location_code,
\* location_code)
GridRegion(location_code) ==
    IF location_code \in DOMAIN GRID_REGIONS
    THEN GRID_REGIONS[location_code] ELSE location_code

\* CarbonIntensityTracker._load_carbon_data: the file that is loaded
LoadCarbonData(location_code) ==
    LET grid_region == GridRegion(location_code)
        ci_file == IF grid_region \in CI_FILES THEN grid_region
                   ELSE IF location_code \in CI_FILES THEN location_code
                   ELSE "TX"
    IN  [raised |-> "none", file |-> ci_file]

Column(rows, col) == [k \in 1..Len(rows) |-> rows[k][col]]

\* pandas Series.mean()
Mean(s) == Sum(s) \div Len(s)

\* LocationManager.get_temperature
get_temperature(weather_data, ts) ==
    LET SameHour(r) == r.month = StartMonth /\ r.day = DayOf(ts)
                       /\ r.hour = HourOf(ts)
        SameMonth(r) == r.month = StartMonth
        matching_data == SelectSeq(weather_data, SameHour)
        month_data == SelectSeq(weather_data, SameMonth)
    IN  IF Len(matching_data) > 0
        THEN Mean(Column(matching_data, "temperature"))
        ELSE IF Len(month_data) > 0
             THEN Mean(Column(month_data, "temperature"))
             ELSE 20

\* LocationManager.get_wet_bulb_temperature
get_wet_bulb_temperature(weather_data, ts) ==
    LET SameHour(r) == r.month = StartMonth /\ r.day = DayOf(ts)
                       /\ r.hour = HourOf(ts)
        SameMonth(r) == r.month = StartMonth
        matching_data == SelectSeq(weather_data, SameHour)
        month_data == SelectSeq(weather_data, SameMonth)
    IN  IF Len(matching_data) > 0
        THEN Mean(Column(matching_data, "wet_bulb"))
        ELSE IF Len(month_data) > 0
             THEN Mean(Column(month_data, "wet_bulb"))
             ELSE 15

\* CarbonIntensityTracker.get_carbon_intensity
get_carbon_intensity(carbon_data, ts) ==
    LET SameDateHour(r) == r.year = StartYear /\ r.month = StartMonth
                           /\ r.day = DayOf(ts) /\ r.hour = HourOf(ts)
        SameHour(r) == r.hour = HourOf(ts)
        matching_data == SelectSeq(carbon_data, SameDateHour)
        hourly == SelectSeq(carbon_data, SameHour)
    IN  IF Len(matching_data) > 0
        THEN Mean(Column(matching_data, "carbon_intensity"))
        ELSE IF Len(hourly) > 0
             THEN Mean(Column(hourly, "carbon_intensity"))
             ELSE Mean(Column(carbon_data, "carbon_intensity"))

\* ------------------------------------------------------------------------
\* CoolingManager
\* ------------------------------------------------------------------------
COOLING_TYPES == {"air", "water", "immersion", "hybrid"}

\* CoolingManager.__init__: an unrecognised type is replaced by 'air'
CoolingManagerType(cooling_type) ==
    IF cooling_type \notin COOLING_TYPES THEN "air" ELSE cooling_type

\* ------------------------------------------------------------------------
\* The IT/thermal model (module datacenter), an external collaborator that
\* the engine consumes through three calls.  It is a deterministic function
\* of its arguments and of the three water fields of the model object.
\* ------------------------------------------------------------------------
ITFAN_REF_P == 10000
CRAC_FAN_REF_P == 10000
CT_FAN_REF_P == 5000
CW_PUMP_P == 2000
CT_PUMP_P == 1000

\* DataCenter_ITModel(...).total_DC_full_load
TotalDCFullLoad(config) ==
    LET n == Min2(config.NUM_RACKS, Len(config.RACK_CPU_CONFIG))
        RackFull(r) ==
            Sum([c \in 1..Len(config.RACK_CPU_CONFIG[r]) |->
                    config.RACK_CPU_CONFIG[r][c].full_load_pwr])
    IN  Sum([r \in 1..n |-> RackFull(r)])

\* DataCenter_ITModel.compute_datacenter_IT_load_outlet_temp; a rack load is
\* a percentage counted in 1/WorkloadScale
ComputeITLoad(config, rack_loads, crac_setpoint) ==
    LET n == Min2(Min2(config.NUM_RACKS, Len(config.RACK_CPU_CONFIG)),
                  Min2(Len(config.RACK_SUPPLY_APPROACH_TEMP_LIST),
                       Len(rack_loads)))
        Cpu(r, c) == LET cpu == config.RACK_CPU_CONFIG[r][c]
                     IN  cpu.idle_pwr
                         + ((cpu.full_load_pwr - cpu.idle_pwr)
                            \div WorkloadScale) * (rack_loads[r] \div 100)
    IN  [rack_cpu_power |->
            [r \in 1..n |->
                Sum([c \in 1..Len(config.RACK_CPU_CONFIG[r]) |-> Cpu(r, c)])],
         rack_itfan_power |-> [r \in 1..n |-> ITFAN_REF_P],
         rack_outlet_temps |->
            [r \in 1..n |-> crac_setpoint
                            + config.RACK_SUPPLY_APPROACH_TEMP_LIST[r]
                            + 50 + rack_loads[r] \div 50000]]

\* datacenter.calculate_avg_CRAC_return_temp
AvgCRACReturnTemp(rack_return_approach_temp_list, rackwise_outlet_temp) ==
    LET n == Len(rack_return_approach_temp_list)
        m == Min2(n, Len(rackwise_outlet_temp))
    IN  Sum([r \in 1..m |-> rack_return_approach_temp_list[r]
                            + rackwise_outlet_temp[r]]) \div n

\* datacenter.calculate_HVAC_power
HVACPower(crac_setpoint, avg_return_temp, ambient_temp, full_load) ==
    LET load == (full_load \div Kilo)
                * Max2(0, avg_return_temp - crac_setpoint)
    IN  [crac_fan_power |-> CRAC_FAN_REF_P,
         ct_fan_power |-> CT_FAN_REF_P + 100 * Max2(0, ambient_temp),
         crac_cooling_load |-> load,
         chiller_power |-> load \div 4,
         cw_pump_power |-> CW_PUMP_P,
         ct_pump_power |-> CT_PUMP_P]

\* DataCenter_ITModel.calculate_cooling_tower_water_usage
CoolingTowerWaterUsage(dc) ==
    100 + 2 * Max2(0, dc.hot_water_temp - dc.cold_water_temp)
    + Max2(0, dc.wet_bulb_temp)

\* ------------------------------------------------------------------------
\* SolsticeDatacenterModel: configuration
\* ------------------------------------------------------------------------
CpuSpec(full, idle) == [full_load_pwr |-> full, idle_pwr |-> idle]

\* _initialize_config: the configuration dictionary (the keys the engine
\* and the thermal model read)
ConfigDict(num_racks, supply, return, cpus_per_rack, full, idle) ==
    [NUM_RACKS |-> num_racks,
     RACK_SUPPLY_APPROACH_TEMP_LIST |-> supply,
     RACK_RETURN_APPROACH_TEMP_LIST |-> return,
     CPUS_PER_RACK |-> cpus_per_rack,
     RACK_CPU_CONFIG |->
        [r \in 1..num_racks |-> [c \in 1..cpus_per_rack |-> CpuSpec(full, idle)]]]

\* two racks with one approach temperature each
DefaultConfig == ConfigDict(2, <<25, 25>>, <<-15, -15>>, 2, 125000, 25000)
\* two racks but a single supply approach temperature
ShortListConfig == ConfigDict(2, <<25>>, <<-15, -15>>, 2, 125000, 25000)

\* Texas, whose files the environment holds, and a code with no data mapping
LocationArgs == {"TX", "ZZ"}
CoolingTypeArgs == {"air", "water", "hybrid", "foo"}
CapacityArgs == 0..MaxCapacityMW
\* simulation_days, in ticks: minus one hour, and 0 .. MaxTicks
DurationArgs == {0 - TicksPerHour} \cup 0..MaxTicks

\* the configuration dictionary and the two multipliers
Tuning(config, efficiency, overhead) ==
    [config |-> config, cooling_efficiency_factor |-> efficiency,
     pue_overhead |-> overhead]
Tunings == {Tuning(DefaultConfig, 1, 1), Tuning(DefaultConfig, 2, 1),
            Tuning(DefaultConfig, 1, 2), Tuning(ShortListConfig, 1, 1)}

\* keyword arguments of SolsticeDatacenterModel.__init__
ParamsOf(locations, cooling_types, capacities, durations, tunings) ==
    {[config |-> t.config,
      location |-> l,
      cooling_type |-> c,
      datacenter_capacity_mw |-> mw,
      simulation_days |-> d,
      cooling_efficiency_factor |-> t.cooling_efficiency_factor,
      pue_overhead |-> t.pue_overhead] :
        l \in locations, c \in cooling_types, mw \in capacities,
        d \in durations, t \in tunings}

Params == ParamsOf(LocationArgs, CoolingTypeArgs, CapacityArgs, DurationArgs,
                   Tunings)

\* _initialize_datacenter: scaling_factor
ScalingFactor(datacenter_capacity_mw, total_DC_full_load) ==
    (datacenter_capacity_mw * Mega) \div total_DC_full_load

\* __init__: the empty result storage
EmptyResults ==
    [timestamps |-> <<>>, datacenter_energy |-> <<>>, cooling_energy |-> <<>>,
     total_energy |-> <<>>, carbon_intensity |-> <<>>,
     carbon_emissions |-> <<>>, water_usage |-> <<>>,
     ambient_temperature |-> <<>>, workload |-> <<>>]

\* the per-hour series the loop of run_simulation appends to
HourlySeries == {"datacenter_energy", "cooling_energy", "total_energy",
                 "carbon_intensity", "carbon_emissions", "water_usage",
                 "ambient_temperature"}

\* ------------------------------------------------------------------------
\* run_simulation: the pieces of one run
\* ------------------------------------------------------------------------
\* variant of TimeGrid: the end date is included (<= for <)
RECURSIVE TimeGridInclusive(_, _, _)
TimeGridInclusive(current_date, end_date, timestamps) ==
    IF current_date <= end_date
    THEN TimeGridInclusive(current_date + TicksPerHour, end_date,
                           Append(timestamps, current_date))
    ELSE timestamps

\* the while loop that builds the timestamps, one hour apart
RECURSIVE TimeGridEveryTick(_, _, _)
RECURSIVE TimeGrid(_, _, _)
TimeGridEveryTick(current_date, end_date, timestamps) ==
    IF current_date < end_date
    THEN TimeGridEveryTick(current_date + 1, end_date,
                           Append(timestamps, current_date))
    ELSE timestamps

TimeGrid(current_date, end_date, timestamps) ==
    IF current_date < end_date
    THEN TimeGrid(current_date + TicksPerHour, end_date,
                  Append(timestamps, current_date))
    ELSE timestamps

\* sin(pi * k / 12) in 1/WorkloadScale, rounded
SinTable == <<0, 2588, 5000, 7071, 8660, 9659,
              10000, 9659, 8660, 7071, 5000, 2588>>
SinPi12(k) == LET m == k % 24
              IN  IF m < 12 THEN SinTable[m + 1] ELSE 0 - SinTable[m - 11]

\* the default daily pattern
DayPattern(hour) ==
    IF 8 <= hour /\ hour < 20
    THEN 7000 + (2 * SinPi12(hour - 8)) \div 10
    ELSE 4000 + SinPi12(hour - 20) \div 10

\* variant of DefaultWorkload: the hour of day is taken one hour late
DefaultWorkloadLate(simulation_hours) ==
    [i \in 1..simulation_hours |-> DayPattern(i % 24)]

DefaultWorkload(simulation_hours) ==
    [i \in 1..simulation_hours |-> DayPattern((i - 1) % 24)]

\* variant of CracSetpoint: the value is not clamped
CracSetpointUnclamped(ambient_temp) == 90 + (ambient_temp - 20)

\* crac_setpoint = min(22.0, max(16.0, 18.0 + (ambient_temp - 20.0) * 0.2)),
\* in fifths of a degree
CracSetpoint(ambient_temp) ==
    Min2(110, Max2(80, 90 + (ambient_temp - 20)))

ITPower(it, scaling) ==
    (Sum(it.rack_cpu_power) + Sum(it.rack_itfan_power)) * scaling

\* the test that selects the air branch
AirBranch(cooling_type) == cooling_type = "air"

\* variant of CoolingPower: the cooling tower and the pumps always count
CoolingPowerAllTerms(cooling_type, hvac, efficiency, scaling) ==
    (hvac.crac_fan_power + hvac.ct_fan_power + hvac.chiller_power
     + hvac.cw_pump_power + hvac.ct_pump_power) * efficiency * scaling

CoolingPower(cooling_type, hvac, efficiency, scaling) ==
    IF AirBranch(cooling_type)
    THEN (hvac.crac_fan_power + hvac.chiller_power) * efficiency * scaling
    ELSE (hvac.crac_fan_power + hvac.ct_fan_power + hvac.chiller_power
          + hvac.cw_pump_power + hvac.ct_pump_power) * efficiency * scaling

\* variant of WaterUsage: the water usage is not scaled
WaterUsageUnscaled(cooling_type, dc, scaling) ==
    IF AirBranch(cooling_type) THEN 0 ELSE CoolingTowerWaterUsage(dc)

\* water_usage of the timestep, from the thermal model object dc
WaterUsage(cooling_type, dc, scaling) ==
    IF AirBranch(cooling_type) THEN 0
    ELSE CoolingTowerWaterUsage(dc) * scaling

\* variant of TotalEnergy: the overhead multiplies the IT power only
TotalEnergyOverheadOnIT(it_power, cooling_power, pue_overhead) ==
    it_power * pue_overhead + cooling_power

TotalEnergy(it_power, cooling_power, pue_overhead) ==
    (it_power + cooling_power) * pue_overhead

\* variant of CarbonEmissions: the product is divided by a thousand
CarbonEmissionsPerKilo(total_energy, carbon_intensity) ==
    (total_energy * carbon_intensity) \div Kilo

CarbonEmissions(total_energy, carbon_intensity) ==
    (total_energy * carbon_intensity) \div Mega

\* variant of WaterUpdate: the wet-bulb field is written after the water
\* usage has been computed from the value it held before
WaterUpdateStale(dc, avg_crac_return_temp, crac_setpoint, wet_bulb) ==
    LET early == [dc EXCEPT !.hot_water_temp = avg_crac_return_temp,
                            !.cold_water_temp = crac_setpoint]
    IN  [used |-> early, stored |-> [early EXCEPT !.wet_bulb_temp = wet_bulb]]

\* the water branch writes the three water fields of the thermal model
\* before it asks for the water usage: "used" is the model object the
\* water usage is computed from, "stored" the one left behind
WaterUpdate(dc, avg_crac_return_temp, crac_setpoint, wet_bulb) ==
    LET updated == [dc EXCEPT !.hot_water_temp = avg_crac_return_temp,
                              !.cold_water_temp = crac_setpoint,
                              !.wet_bulb_temp = wet_bulb]
    IN  [used |-> updated, stored |-> updated]

\* one pass of the loop body for index i (1-based), without the appends:
\* the values of the timestep and the thermal model object left behind
Timestep(a, sf, dc, results, weather_data, carbon_data, i) ==
    LET timestamp == results.timestamps[i]
        ambient_temp == get_temperature(weather_data, timestamp)
        carbon_intensity == get_carbon_intensity(carbon_data, timestamp)
        current_workload == results.workload[i]
        rack_loads == [r \in 1..a.config.NUM_RACKS |-> current_workload * 100]
        crac_setpoint == CracSetpoint(ambient_temp)
        it == ComputeITLoad(a.config, rack_loads, crac_setpoint)
        it_power == ITPower(it, sf)
        avg_crac_return_temp ==
            AvgCRACReturnTemp(a.config.RACK_RETURN_APPROACH_TEMP_LIST,
                              it.rack_outlet_temps)
        hvac == HVACPower(crac_setpoint, avg_crac_return_temp, ambient_temp,
                          dc.total_DC_full_load * sf)
        cooling_power == CoolingPower(a.cooling_type, hvac,
                                      a.cooling_efficiency_factor, sf)
        water == WaterUpdate(dc, avg_crac_return_temp, crac_setpoint,
                             get_wet_bulb_temperature(weather_data, timestamp))
        water_usage == WaterUsage(a.cooling_type, water.used, sf)
        total_energy == TotalEnergy(it_power, cooling_power, a.pue_overhead)
    IN  [ambient_temperature |-> ambient_temp,
         carbon_intensity |-> carbon_intensity,
         datacenter_energy |-> it_power,
         cooling_energy |-> cooling_power,
         water_usage |-> water_usage,
         total_energy |-> total_energy,
         carbon_emissions |-> CarbonEmissions(total_energy, carbon_intensity),
         crac_setpoint |-> crac_setpoint,
         hvac |-> hvac,
         dc_model |-> IF AirBranch(a.cooling_type) THEN dc ELSE water.stored]

\* the appends of a whole pass
AppendTimestep(results, t) ==
    [results EXCEPT
        !.ambient_temperature = Append(@, t.ambient_temperature),
        !.carbon_intensity = Append(@, t.carbon_intensity),
        !.datacenter_energy = Append(@, t.datacenter_energy),
        !.cooling_energy = Append(@, t.cooling_energy),
        !.water_usage = Append(@, t.water_usage),
        !.total_energy = Append(@, t.total_energy),
        !.carbon_emissions = Append(@, t.carbon_emissions)]

\* the appends made before workload_pattern[i] raises IndexError
AppendProviderValues(results, weather_data, carbon_data, i) ==
    LET timestamp == results.timestamps[i]
    IN  [results EXCEPT
            !.ambient_temperature =
                Append(@, get_temperature(weather_data, timestamp)),
            !.carbon_intensity =
                Append(@, get_carbon_intensity(carbon_data, timestamp))]

\* variant of ResultsAtStart: only the timestamps and the workload of the
\* earlier result are replaced
ResultsKeptAtStart(previous, timestamps, workload_pattern) ==
    [previous EXCEPT !.timestamps = timestamps,
                     !.workload = workload_pattern]

\* the result storage a run starts with; the earlier one is not consulted
ResultsAtStart(previous, timestamps, workload_pattern) ==
    [EmptyResults EXCEPT !.timestamps = timestamps,
                         !.workload = workload_pattern]

\* ------------------------------------------------------------------------
\* State
\* ------------------------------------------------------------------------
VARIABLES
    env,                 \* which data files the providers have loaded
    pc,                  \* per engine: "unbuilt", "idle" or "running"
    attrs,               \* per engine: the attributes set by __init__
    scaling_factor,      \* per engine: self.scaling_factor
    dc_model,            \* per engine: self.dc_model
    simulation_results,  \* per engine: self.simulation_results
    frame,               \* per engine: locals of the running run_simulation
    ret,                 \* per engine: outcome of the last finished call
    run_log,             \* per engine, history: how the last call of
                         \*   run_simulation ended, its argument, and whether
                         \*   it started on a thermal model whose water
                         \*   fields an earlier run had written
    caller,              \* per engine: the result object that the caller of
                         \*   run_simulation was handed and holds
    call,                \* a call of a function or of a provider's
                         \*   constructor made outside any engine
    iface                \* an LLMQueryInterface: models, active_model and
                         \*   the outcome of its last call

vars == <<env, pc, attrs, scaling_factor, dc_model, simulation_results,
          frame, ret, run_log, caller, call, iface>>

\* the workload_pattern argument: None or a list
NoWorkload == [given |-> FALSE, values |-> <<>>]

NoAttrs == [built |-> FALSE]
NoDc == [built |-> FALSE]
NoFrame == [i |-> 0]
NoRun == [status |-> "none", workload_pattern |-> NoWorkload,
          dirty_start |-> FALSE]
NoRet == [op |-> "none", raised |-> "none", value |-> [none |-> TRUE]]
NoCall == [fn |-> "none", arg |-> 0, done |-> FALSE, value |-> 0]

\* the caller of run_simulation: whether it keeps what run_simulation
\* returns, whether it holds a result, whether that result is the very
\* dictionary self.simulation_results is bound to, and the result it holds
Caller(keeps) == [keeps |-> keeps, has |-> FALSE, same_object |-> FALSE,
                  value |-> EmptyResults]

\* variant of Rebound: the dictionary is kept and its lists are reset
StillBound(c) == c

\* self.simulation_results is bound to a new dictionary
Rebound(c) == [c EXCEPT !.same_object = FALSE]
\* the dictionary self.simulation_results is bound to is changed in place
ChangedInPlace(c, results) ==
    IF c.same_object THEN [c EXCEPT !.value = results] ELSE c
\* run_simulation returns self.simulation_results
Handed(c, results) ==
    IF c.keeps THEN [c EXCEPT !.has = TRUE, !.same_object = TRUE,
                              !.value = results]
    ELSE c

WorkloadLevels == {WorkloadScale}
WorkloadArgs ==
    {NoWorkload} \cup
    {[given |-> TRUE, values |-> w] : w \in SeqsUpTo(WorkloadLevels, MaxWorkloadLen)}

EngineVars == <<env, pc, attrs, scaling_factor, dc_model, simulation_results,
                frame, ret, run_log, caller>>

\* ------------------------------------------------------------------------
\* LLMQueryInterface: a registry of engines under caller-chosen ids.  An
\* engine held by the registry is kept as the end of its time grid, whether
\* a run_simulation of it has returned, and the number of timesteps its
\* results hold.
\* ------------------------------------------------------------------------
None == "None"
IfaceIds == {"a", "b", ""}
IfaceIdArgs == IfaceIds \cup {None}
IfaceParams == [location : {"TX", "ZZ"}, duration : {0, TicksPerHour}]
IfaceWorkloads == {NoWorkload, [given |-> TRUE, values |-> <<>>], [given |-> TRUE, values |-> <<WorkloadScale, WorkloadScale>>]}

\* x or y
OrElse(x, y) == IF x = None \/ x = "" THEN y ELSE x

NoIfaceRet == [op |-> "none", model_id |-> None, model_id2 |-> None, used |-> None, error |-> "none", raised |-> "none", results_error |-> FALSE]
NoIface == [models |-> <<>>, active_model |-> None, ret |-> NoIfaceRet, before |-> [models |-> <<>>, active_model |-> None]]

\* the registry and the active id as a call finds them
Snapshot(f) == [models |-> f.models, active_model |-> f.active_model]

\* the outcome of one call
IfaceRet(op, model_id, model_id2, used, error, raised, results_error) ==
    [op |-> op, model_id |-> model_id, model_id2 |-> model_id2, used |-> used, error |-> error, raised |-> raised, results_error |-> results_error]

\* model.run_simulation(**sim_params) on a registry entry: the IndexError
\* of a workload shorter than the grid leaves the entry's has_data alone
RunOutcome(entry, w) ==
    LET timestamps == TimeGrid(0, entry.model.end_date, <<>>)
        workload_pattern == IF w.given THEN w.values
                            ELSE DefaultWorkload(Len(timestamps))
    IN  IF Len(workload_pattern) < Len(timestamps) THEN "IndexError"
        ELSE IF Len(workload_pattern) # Len(timestamps) THEN "ValueError"
        ELSE "success"

\* the entry after run_simulation: has_data is set once the engine's run
\* has returned, before the results are saved
EntryAfterRun(entry, w) ==
    LET timestamps == TimeGrid(0, entry.model.end_date, <<>>)
    IN  IF RunOutcome(entry, w) = "IndexError"
        THEN [entry EXCEPT !.model.steps = Len(w.values)]
        ELSE [model |-> [entry.model EXCEPT !.completed = TRUE,
                                            !.steps = Len(timestamps)],
              has_data |-> TRUE]

\* model.query(...) answers with an error dict while the results are empty
QueryIsError(entry) == entry.model.steps = 0

\* create_model(model_id, **model_params)
IfaceCreateModel(model_id, p) ==
    /\ iface' =
         IF LoadWeatherData(p.location).raised # "none"
         THEN [iface EXCEPT
                 !.before = Snapshot(iface),
                 !.ret = IfaceRet("create_model", model_id, None, model_id,
                                  "none", LoadWeatherData(p.location).raised,
                                  FALSE)]
         ELSE [models |-> (model_id :> [model |-> [end_date |-> p.duration,
                                                   completed |-> FALSE,
                                                   steps |-> 0],
                                        has_data |-> FALSE]) @@ iface.models,
               active_model |-> IF iface.active_model = None THEN model_id
                                ELSE iface.active_model,
               before |-> Snapshot(iface),
               ret |-> IfaceRet("create_model", model_id, None, model_id,
                                "none", "none", FALSE)]
    /\ UNCHANGED <<EngineVars, call>>

\* run_simulation(model_id=None, **sim_params)
IfaceRunSimulation(id_arg, w) ==
    /\ LET model_id == OrElse(id_arg, iface.active_model)
       IN  iface' =
             IF model_id \notin DOMAIN iface.models
             THEN [iface EXCEPT
                     !.before = Snapshot(iface),
                     !.ret = IfaceRet("run_simulation", id_arg, None, model_id,
                                      "not found", "none", FALSE)]
             ELSE [iface EXCEPT
                     !.models[model_id] = EntryAfterRun(@, w),
                     !.before = Snapshot(iface),
                     !.ret = IfaceRet("run_simulation", id_arg, None, model_id,
                                "none",
                                IF RunOutcome(iface.models[model_id], w) = "success"
                                THEN "none"
                                ELSE RunOutcome(iface.models[model_id], w),
                                FALSE)]
    /\ UNCHANGED <<EngineVars, call>>

\* set_active_model(model_id)
IfaceSetActiveModel(model_id) ==
    /\ iface' =
         IF model_id \notin DOMAIN iface.models
         THEN [iface EXCEPT
                 !.before = Snapshot(iface),
                 !.ret = IfaceRet("set_active_model", model_id, None, model_id,
                                  "not found", "none", FALSE)]
         ELSE [iface EXCEPT
                 !.active_model = model_id,
                 !.before = Snapshot(iface),
                 !.ret = IfaceRet("set_active_model", model_id, None, model_id,
                                  "none", "none", FALSE)]
    /\ UNCHANGED <<EngineVars, call>>

\* process_query(query_text, model_id=None)
IfaceProcessQuery(id_arg) ==
    /\ LET model_id == OrElse(id_arg, iface.active_model)
           error == IF model_id \notin DOMAIN iface.models THEN "not found"
                    ELSE IF ~iface.models[model_id].has_data THEN "no data"
                    ELSE "none"
       IN  iface' = [iface EXCEPT
                       !.before = Snapshot(iface),
                       !.ret = IfaceRet("process_query", id_arg, None,
                                        model_id, error, "none",
                                        /\ error = "none"
                                        /\ QueryIsError(iface.models[model_id]))]
    /\ UNCHANGED <<EngineVars, call>>

\* compare_models(model_id1, model_id2): the differences are read from the
\* two summaries, which raises KeyError when a summary is an error dict
IfaceCompareModels(model_id1, model_id2) ==
    /\ LET error == IF model_id1 \notin DOMAIN iface.models THEN "not found"
                    ELSE IF model_id2 \notin DOMAIN iface.models THEN "not found"
                    ELSE IF \/ ~iface.models[model_id1].has_data
                            \/ ~iface.models[model_id2].has_data
                         THEN "no data"
                    ELSE "none"
           raised == IF /\ error = "none"
                        /\ \/ QueryIsError(iface.models[model_id1])
                           \/ QueryIsError(iface.models[model_id2])
                     THEN "KeyError" ELSE "none"
       IN  iface' = [iface EXCEPT
                       !.before = Snapshot(iface),
                       !.ret = IfaceRet("compare_models", model_id1, model_id2,
                                        model_id1, error, raised, FALSE)]
    /\ UNCHANGED <<EngineVars, call>>

Init ==
    /\ env \in Envs
    /\ pc = [e \in EngineIds |-> "unbuilt"]
    /\ attrs = [e \in EngineIds |-> NoAttrs]
    /\ scaling_factor = [e \in EngineIds |-> 0]
    /\ dc_model = [e \in EngineIds |-> NoDc]
    /\ simulation_results = [e \in EngineIds |-> EmptyResults]
    /\ frame = [e \in EngineIds |-> NoFrame]
    /\ ret = [e \in EngineIds |-> NoRet]
    /\ run_log = [e \in EngineIds |-> NoRun]
    /\ caller = [e \in EngineIds |-> Caller(FALSE)]
    /\ call = NoCall
    /\ iface = NoIface

\* ------------------------------------------------------------------------
\* Operations
\* ------------------------------------------------------------------------
\* SolsticeDatacenterModel.__init__ (with _initialize_datacenter)
Construct(e, p) ==
    /\ pc[e] = "unbuilt"
    /\ LoadWeatherData(p.location).raised = "none"
    /\ LET full == TotalDCFullLoad(p.config)
       IN  /\ attrs' = [attrs EXCEPT ![e] =
                [built |-> TRUE,
                 weather_file |-> LoadWeatherData(p.location).file,
                 ci_file |-> LoadCarbonData(p.location).file,
                 config |-> p.config,
                 location |-> p.location,
                 cooling_type |-> p.cooling_type,
                 datacenter_capacity_mw |-> p.datacenter_capacity_mw,
                 cooling_efficiency_factor |-> p.cooling_efficiency_factor,
                 pue_overhead |-> p.pue_overhead,
                 start_date |-> 0,
                 end_date |-> 0 + p.simulation_days,
                 cooling_manager |-> CoolingManagerType(p.cooling_type)]]
           /\ dc_model' = [dc_model EXCEPT ![e] =
                [built |-> TRUE, total_DC_full_load |-> full,
                 hot_water_temp |-> 0, cold_water_temp |-> 0,
                 wet_bulb_temp |-> 0]]
           /\ scaling_factor' = [scaling_factor EXCEPT ![e] =
                ScalingFactor(p.datacenter_capacity_mw, full)]
    /\ simulation_results' = [simulation_results EXCEPT ![e] = EmptyResults]
    /\ pc' = [pc EXCEPT ![e] = "idle"]
    /\ ret' = [ret EXCEPT ![e] =
                [op |-> "__init__", raised |-> "none", value |-> [none |-> TRUE]]]
    /\ caller' = [caller EXCEPT ![e] = Rebound(@)]
    /\ UNCHANGED <<env, frame, run_log, call, iface>>

\* SolsticeDatacenterModel.__init__ when LocationManager(location) raises:
\* no engine comes into being
ConstructRaise(e, p) ==
    /\ pc[e] = "unbuilt"
    /\ LoadWeatherData(p.location).raised # "none"
    /\ ret' = [ret EXCEPT ![e] =
                [op |-> "__init__",
                 raised |-> LoadWeatherData(p.location).raised,
                 value |-> [none |-> TRUE]]]
    /\ UNCHANGED <<env, pc, attrs, scaling_factor, dc_model,
                   simulation_results, frame, run_log, caller, call, iface>>

\* run_simulation up to the loop: timestamps, workload, fresh result storage
RunStart(e, w) ==
    /\ pc[e] = "idle"
    /\ LET timestamps == TimeGrid(attrs[e].start_date, attrs[e].end_date, <<>>)
           workload_pattern == IF w.given THEN w.values
                               ELSE DefaultWorkload(Len(timestamps))
       IN  simulation_results' = [simulation_results EXCEPT ![e] =
                ResultsAtStart(@, timestamps, workload_pattern)]
    /\ frame' = [frame EXCEPT ![e] = [i |-> 1]]
    /\ pc' = [pc EXCEPT ![e] = "running"]
    /\ run_log' = [run_log EXCEPT ![e] =
            [status |-> "running", workload_pattern |-> w,
             dirty_start |-> \/ dc_model[e].hot_water_temp # 0
                             \/ dc_model[e].cold_water_temp # 0
                             \/ dc_model[e].wet_bulb_temp # 0]]
    /\ caller' = [caller EXCEPT ![e] = Rebound(@)]
    /\ UNCHANGED <<env, attrs, scaling_factor, dc_model, ret, call, iface>>

\* one pass of the loop of run_simulation
RunStep(e) ==
    /\ pc[e] = "running"
    /\ frame[e].i <= Len(simulation_results[e].timestamps)
    /\ frame[e].i <= Len(simulation_results[e].workload)
    /\ LET t == Timestep(attrs[e], scaling_factor[e], dc_model[e],
                         simulation_results[e], WeatherTables[env],
                         CarbonTables[env], frame[e].i)
       IN  /\ simulation_results' = [simulation_results EXCEPT ![e] =
                                        AppendTimestep(@, t)]
           /\ dc_model' = [dc_model EXCEPT ![e] = t.dc_model]
    /\ frame' = [frame EXCEPT ![e].i = @ + 1]
    /\ caller' = [caller EXCEPT ![e] =
                    ChangedInPlace(@, simulation_results'[e])]
    /\ UNCHANGED <<env, pc, attrs, scaling_factor, ret, run_log, call, iface>>

\* a pass of the loop in which workload_pattern[i] raises IndexError: the
\* exception leaves run_simulation
RunRaise(e) ==
    /\ pc[e] = "running"
    /\ frame[e].i <= Len(simulation_results[e].timestamps)
    /\ frame[e].i > Len(simulation_results[e].workload)
    /\ simulation_results' = [simulation_results EXCEPT ![e] =
            AppendProviderValues(@, WeatherTables[env], CarbonTables[env],
                                 frame[e].i)]
    /\ pc' = [pc EXCEPT ![e] = "idle"]
    /\ frame' = [frame EXCEPT ![e] = NoFrame]
    /\ ret' = [ret EXCEPT ![e] =
                [op |-> "run_simulation", raised |-> "IndexError",
                 value |-> [none |-> TRUE]]]
    /\ run_log' = [run_log EXCEPT ![e].status = "raised"]
    /\ caller' = [caller EXCEPT ![e] =
                    ChangedInPlace(@, simulation_results'[e])]
    /\ UNCHANGED <<env, attrs, scaling_factor, dc_model, call, iface>>

\* the loop is exhausted: run_simulation returns self.simulation_results
RunReturn(e) ==
    /\ pc[e] = "running"
    /\ frame[e].i > Len(simulation_results[e].timestamps)
    /\ pc' = [pc EXCEPT ![e] = "idle"]
    /\ frame' = [frame EXCEPT ![e] = NoFrame]
    /\ ret' = [ret EXCEPT ![e] =
                [op |-> "run_simulation", raised |-> "none",
                 value |-> [none |-> TRUE]]]
    /\ run_log' = [run_log EXCEPT ![e].status = "returned"]
    /\ caller' = [caller EXCEPT ![e] = Handed(@, simulation_results[e])]
    /\ UNCHANGED <<env, attrs, scaling_factor, dc_model, simulation_results,
                   call, iface>>

\* ------------------------------------------------------------------------
\* query: texts are sequences of characters
\* ------------------------------------------------------------------------
UpperCase == <<"A", "B", "C", "D", "E", "F", "G", "H", "I", "J", "K", "L", "M",
               "N", "O", "P", "Q", "R", "S", "T", "U", "V", "W", "X", "Y", "Z">>
LowerCase == <<"a", "b", "c", "d", "e", "f", "g", "h", "i", "j", "k", "l", "m",
               "n", "o", "p", "q", "r", "s", "t", "u", "v", "w", "x", "y", "z">>

\* str.lower()
LowerChar(c) ==
    IF \E k \in 1..Len(UpperCase) : UpperCase[k] = c
    THEN LowerCase[CHOOSE k \in 1..Len(UpperCase) : UpperCase[k] = c]
    ELSE c
Lower(text) == [k \in 1..Len(text) |-> LowerChar(text[k])]

\* the Python test: word in text
Contains(text, word) ==
    \E k \in 0..(Len(text) - Len(word)) :
        \A j \in 1..Len(word) : text[k + j] = word[j]

KwAverage == <<"a", "v", "e", "r", "a", "g", "e">>
KwMean == <<"m", "e", "a", "n">>
KwEnergy == <<"e", "n", "e", "r", "g", "y">>
KwPower == <<"p", "o", "w", "e", "r">>
KwCarbon == <<"c", "a", "r", "b", "o", "n">>
KwEmissions == <<"e", "m", "i", "s", "s", "i", "o", "n", "s">>
KwWater == <<"w", "a", "t", "e", "r">>
KwPeak == <<"p", "e", "a", "k">>
KwMaximum == <<"m", "a", "x", "i", "m", "u", "m">>
KwMax == <<"m", "a", "x">>
KwTotal == <<"t", "o", "t", "a", "l">>
KwSum == <<"s", "u", "m">>
KwCompare == <<"c", "o", "m", "p", "a", "r", "e">>

\* the query texts the callers of this repository and its users send
TextSummary == <<"s", "u", "m", "m", "a", "r", "y">>
TextGiveSummary == <<"G", "i", "v", "e", " ", "m", "e", " ", "a", " ",
                     "s", "u", "m", "m", "a", "r", "y">>
TextOverview == <<"o", "v", "e", "r", "v", "i", "e", "w">>
TextAveragePower == <<"A", "v", "e", "r", "a", "g", "e", " ",
                      "p", "o", "w", "e", "r">>

QueryTexts == {TextSummary, TextGiveSummary, TextOverview, TextAveragePower}

EmptyDict == [k \in {} |-> 0]
NoDataError ==
    [error |-> "No simulation data available. Please run a simulation first."]

\* strftime('%Y-%m-%d %H:%M:%S') of a timestamp of the grid
Strftime(ts) ==
    [year |-> StartYear, month |-> StartMonth, day |-> DayOf(ts),
     hour |-> HourOf(ts), minute |-> ts % TicksPerHour, second |-> 0]

\* get_results_dataframe: pandas refuses columns of different lengths
DataFrameOk(results) ==
    \A k \in DOMAIN results : Len(results[k]) = Len(results.timestamps)

GetResultsDataframe(results) ==
    [results EXCEPT !.timestamps =
        [k \in 1..Len(results.timestamps) |-> Strftime(results.timestamps[k])]]

\* variant of SummaryHasWater: the water key is always added
SummaryHasWaterAlways(cooling_type) == cooling_type = cooling_type

\* the water key of the summary is added for this cooling type only
SummaryHasWater(cooling_type) == cooling_type = "water"

\* the else branch of query: the summary of all key metrics
Summary(a, df) ==
    [total_energy_kwh |-> Ratio(Sum(df.total_energy), Kilo),
     average_power_kw |-> Ratio(Sum(df.total_energy),
                                Len(df.total_energy) * Kilo),
     peak_power_kw |-> Ratio(MaxOf(df.total_energy), Kilo),
     total_carbon_emissions_tons |-> Sum(df.carbon_emissions),
     energy_breakdown |->
        [datacenter_percent |->
            Ratio(Sum(df.datacenter_energy) * 100, Sum(df.total_energy)),
         cooling_percent |->
            Ratio(Sum(df.cooling_energy) * 100, Sum(df.total_energy))],
     simulation_duration_hours |-> Len(df.timestamps),
     location |-> a.location,
     cooling_type |-> a.cooling_type,
     datacenter_capacity_mw |-> a.datacenter_capacity_mw]
    @@ (IF SummaryHasWater(a.cooling_type)
        THEN [total_water_usage_liters |-> Sum(df.water_usage)]
        ELSE EmptyDict)

\* the keyword that sends a query to the branch of the totals
TotalBranch(q) == Contains(q, KwTotal) \/ Contains(q, KwSum)

\* query, after the no-data guard and the data frame
QueryParse(a, df, q) ==
    LET about_energy == Contains(q, KwEnergy) \/ Contains(q, KwPower)
        about_carbon == Contains(q, KwCarbon) \/ Contains(q, KwEmissions)
        about_water == Contains(q, KwWater)
        MeanOf(col) == Ratio(Sum(df[col]), Len(df[col]))
    IN  IF Contains(q, KwAverage) \/ Contains(q, KwMean)
        THEN (IF about_energy
              THEN [average_datacenter_energy |-> MeanOf("datacenter_energy"),
                    average_cooling_energy |-> MeanOf("cooling_energy"),
                    average_total_energy |-> MeanOf("total_energy")]
              ELSE EmptyDict)
             @@ (IF about_carbon
                 THEN [average_carbon_intensity |-> MeanOf("carbon_intensity"),
                       average_carbon_emissions |-> MeanOf("carbon_emissions"),
                       total_carbon_emissions |-> Sum(df.carbon_emissions)]
                 ELSE EmptyDict)
             @@ (IF about_water
                 THEN [average_water_usage |-> MeanOf("water_usage"),
                       total_water_usage |-> Sum(df.water_usage)]
                 ELSE EmptyDict)
        ELSE IF Contains(q, KwPeak) \/ Contains(q, KwMaximum)
                \/ Contains(q, KwMax)
        THEN (IF about_energy
              THEN [peak_datacenter_energy |-> MaxOf(df.datacenter_energy),
                    peak_cooling_energy |-> MaxOf(df.cooling_energy),
                    peak_total_energy |-> MaxOf(df.total_energy)]
              ELSE EmptyDict)
             @@ (IF about_carbon
                 THEN [peak_carbon_intensity |-> MaxOf(df.carbon_intensity),
                       peak_carbon_emissions |-> MaxOf(df.carbon_emissions)]
                 ELSE EmptyDict)
             @@ (IF about_water
                 THEN [peak_water_usage |-> MaxOf(df.water_usage)]
                 ELSE EmptyDict)
        ELSE IF TotalBranch(q)
        THEN (IF about_energy
              THEN [total_datacenter_energy |-> Sum(df.datacenter_energy),
                    total_cooling_energy |-> Sum(df.cooling_energy),
                    total_energy |-> Sum(df.total_energy)]
              ELSE EmptyDict)
             @@ (IF about_carbon
                 THEN [total_carbon_emissions |-> Sum(df.carbon_emissions)]
                 ELSE EmptyDict)
             @@ (IF about_water
                 THEN [total_water_usage |-> Sum(df.water_usage)]
                 ELSE EmptyDict)
        ELSE IF Contains(q, KwCompare)
        THEN [message |->
                "Detailed comparisons will be implemented in future versions."]
        ELSE Summary(a, df)

\* what get_results_dataframe leaves in self.simulation_results: it formats
\* the timestamps in a copy, the dictionary of the engine keeps its own
ResultsAfterDataframe(results) == results

\* variant of NoData: only an empty series counts as no data
NoDataEmptyOnly(results) == results.datacenter_energy = <<>>

\* the guard of query: no record of IT power is non-zero
NoData(results) == ~AnyTruthy(results.datacenter_energy)

\* SolsticeDatacenterModel.query
Query(e, query_text) ==
    /\ pc[e] = "idle"
    /\ LET q == Lower(query_text)
           outcome ==
             IF NoData(simulation_results[e])
             THEN [raised |-> "none", value |-> NoDataError]
             ELSE IF ~DataFrameOk(simulation_results[e])
             THEN [raised |-> "ValueError", value |-> EmptyDict]
             ELSE [raised |-> "none",
                   value |-> QueryParse(attrs[e],
                                GetResultsDataframe(simulation_results[e]), q)]
       IN  ret' = [ret EXCEPT ![e] =
                    [op |-> "query", raised |-> outcome.raised,
                     value |-> outcome.value, query_text |-> query_text]]
    /\ simulation_results' = [simulation_results EXCEPT ![e] =
            IF NoData(@) THEN @ ELSE ResultsAfterDataframe(@)]
    /\ caller' = [caller EXCEPT ![e] =
                    ChangedInPlace(@, simulation_results'[e])]
    /\ UNCHANGED <<env, pc, attrs, scaling_factor, dc_model, frame, run_log,
                   call, iface>>

\* ------------------------------------------------------------------------
\* load_research_paper_model
\* ------------------------------------------------------------------------
PaperServerSpecs == [cpu_idle_power |-> 50000, cpu_full_load_power |-> 250000]

\* model_data: server_specs and cooling_parameters['type'] are optional
ModelData == [has_server_specs : BOOLEAN,
              server_specs : {PaperServerSpecs},
              has_cooling_type : BOOLEAN,
              cooling_type : {"air", "water"}]

LoadResearchPaperModel(e, model_data) ==
    /\ pc[e] = "idle"
    /\ LET config == attrs[e].config
           new_rack_cpu_config ==
               [r \in 1..config.NUM_RACKS |->
                   [c \in 1..config.CPUS_PER_RACK |->
                       CpuSpec(model_data.server_specs.cpu_full_load_power,
                               model_data.server_specs.cpu_idle_power)]]
           new_config == IF model_data.has_server_specs
                         THEN [config EXCEPT
                                 !.RACK_CPU_CONFIG = new_rack_cpu_config]
                         ELSE config
           new_type == IF model_data.has_cooling_type
                       THEN model_data.cooling_type
                       ELSE attrs[e].cooling_type
           full == TotalDCFullLoad(new_config)
       IN  /\ attrs' = [attrs EXCEPT
                 ![e].config = new_config,
                 ![e].cooling_type = new_type,
                 ![e].cooling_manager =
                    IF model_data.has_cooling_type
                    THEN CoolingManagerType(new_type) ELSE @]
           /\ dc_model' = [dc_model EXCEPT ![e] =
                 [built |-> TRUE, total_DC_full_load |-> full,
                  hot_water_temp |-> 0, cold_water_temp |-> 0,
                  wet_bulb_temp |-> 0]]
           /\ scaling_factor' = [scaling_factor EXCEPT ![e] =
                 ScalingFactor(attrs[e].datacenter_capacity_mw, full)]
    /\ ret' = [ret EXCEPT ![e] =
                [op |-> "load_research_paper_model", raised |-> "none",
                 value |-> [none |-> TRUE]]]
    /\ UNCHANGED <<env, pc, simulation_results, frame, run_log, caller,
                   call, iface>>

Next ==
    \/ \E p \in Params : Construct(1, p)
    \/ \E p \in Params : ConstructRaise(1, p)
    \/ \E w \in WorkloadArgs : RunStart(1, w)
    \/ RunStep(1)
    \/ RunRaise(1)
    \/ RunReturn(1)
    \/ \E q \in QueryTexts : Query(1, q)
    \/ \E m \in ModelData : LoadResearchPaperModel(1, m)

Spec == Init /\ [][Next]_vars

\* ------------------------------------------------------------------------
\* Two engines side by side, built from the arguments of PairParams and
\* served by the same providers and the same thermal model
\* ------------------------------------------------------------------------
PairParams == ParamsOf({"TX"}, {"air", "foo"}, 1..MaxCapacityMW, {MaxTicks},
                       {Tuning(DefaultConfig, 2, 2)})

NextPair ==
    \E e \in EngineIds :
        \/ \E p \in PairParams : Construct(e, p)
        \/ \E w \in WorkloadArgs : RunStart(e, w)
        \/ RunStep(e)
        \/ RunRaise(e)
        \/ RunReturn(e)

SpecPair == Init /\ [][NextPair]_vars

\* ------------------------------------------------------------------------
\* One engine whose caller keeps the result that run_simulation returns
\* ------------------------------------------------------------------------
HandleParams == ParamsOf({"TX"}, {"air", "water"}, {1}, TicksPerHour..MaxTicks,
                         {Tuning(DefaultConfig, 1, 1)})

InitHandle ==
    /\ env \in Envs
    /\ pc = [e \in EngineIds |-> "unbuilt"]
    /\ attrs = [e \in EngineIds |-> NoAttrs]
    /\ scaling_factor = [e \in EngineIds |-> 0]
    /\ dc_model = [e \in EngineIds |-> NoDc]
    /\ simulation_results = [e \in EngineIds |-> EmptyResults]
    /\ frame = [e \in EngineIds |-> NoFrame]
    /\ ret = [e \in EngineIds |-> NoRet]
    /\ run_log = [e \in EngineIds |-> NoRun]
    /\ caller = [e \in EngineIds |-> Caller(TRUE)]
    /\ call = NoCall
    /\ iface = NoIface

NextHandle ==
    \/ \E p \in HandleParams : Construct(1, p)
    \/ \E w \in WorkloadArgs : RunStart(1, w)
    \/ RunStep(1)
    \/ RunRaise(1)
    \/ RunReturn(1)
    \/ \E q \in QueryTexts : Query(1, q)
    \/ \E m \in ModelData : LoadResearchPaperModel(1, m)

SpecHandle == InitHandle /\ [][NextHandle]_vars

\* ------------------------------------------------------------------------
\* Calls made outside any engine: the setpoint formula and the default
\* workload of run_simulation on inputs of their own, and the constructors
\* of the two providers
\* ------------------------------------------------------------------------
\* ------------------------------------------------------------------------
\* CoolingManager: the per-type profile and its two estimators.  Factors
\* and COP are counted in tenths, water in 1e-9 litres.
\* ------------------------------------------------------------------------

\* COOLING_TYPES[cooling_type]: efficiency_factor and water_usage
cooling_info(cooling_type) ==
    CASE cooling_type = "air" -> [efficiency_factor |-> 10, water_usage |-> 0]
      [] cooling_type = "water" -> [efficiency_factor |-> 7, water_usage |-> 10]
      [] cooling_type = "immersion" -> [efficiency_factor |-> 5, water_usage |-> 3]
      [] cooling_type = "hybrid" -> [efficiency_factor |-> 8, water_usage |-> 5]

\* _initialize_cooling_params: the attributes set for the type; the air
\* branch sets no water_usage_factor
InitializeCoolingParams(cooling_type) ==
    CASE cooling_type = "air" ->
             [coef_of_performance |-> 30, fan_power_factor |-> 10]
      [] cooling_type = "water" ->
             [coef_of_performance |-> 50, fan_power_factor |-> 7,
              water_usage_factor |-> 10, evaporation_rate_pct |-> 5]
      [] cooling_type = "immersion" ->
             [coef_of_performance |-> 70, fan_power_factor |-> 3,
              water_usage_factor |-> 3]
      [] cooling_type = "hybrid" ->
             [coef_of_performance |-> 45, fan_power_factor |-> 8,
              water_usage_factor |-> 5]

\* getattr(obj, name, default)
GetAttr(obj, name, default) == IF name \in DOMAIN obj THEN obj[name] ELSE default

\* a fallback that lands on 'water' instead of 'air'
CoolingManagerFallsBackToWater(cooling_type) ==
    LET type == IF cooling_type \notin COOLING_TYPES THEN "water" ELSE cooling_type
    IN  [raised |-> "none", cooling_type |-> type,
         cooling_info |-> cooling_info(type),
         params |-> InitializeCoolingParams(type)]

\* CoolingManager(cooling_type, config): the constructed object
CoolingManager(cooling_type) ==
    LET type == CoolingManagerType(cooling_type)
    IN  [raised |-> "none", cooling_type |-> type,
         cooling_info |-> cooling_info(type),
         params |-> InitializeCoolingParams(type)]

\* a guard that lets it_power = 0 through to the division
calculate_pue_from_zero(it_power, cooling_power, other_power) ==
    LET total_power == it_power + cooling_power + other_power
    IN  IF it_power >= 0 THEN Ratio(total_power, it_power) ELSE Ratio(1, 1)

\* calculate_pue: the quotient total_power / it_power, or 1.0
calculate_pue(it_power, cooling_power, other_power) ==
    LET total_power == it_power + cooling_power + other_power
    IN  IF it_power > 0 THEN Ratio(total_power, it_power) ELSE Ratio(1, 1)

\* estimate_water_usage, in 1e-9 litres: heat_rejected in watts times 18 is
\* the base usage in 1e-4 litres, the temperature and humidity factors are
\* hundredths, the type's factor tenths
estimate_water_usage(self, heat_rejected, ambient_temp, humidity) ==
    IF self.cooling_type # "water" /\ self.cooling_type # "hybrid" THEN 0
    ELSE LET base_water_usage == heat_rejected * 18
             temp_factor == 100 + Max2(0, ambient_temp - 20)
             humidity_factor == 100 - Min2(30, humidity)
             adjusted_usage == base_water_usage * temp_factor * humidity_factor
         IN  adjusted_usage * GetAttr(self.params, "water_usage_factor", 10)

\* ------------------------------------------------------------------------
\* Single calls of the pure functions and of the providers
\* ------------------------------------------------------------------------

\* a weather file that holds no row of the month the simulation starts in
SparseWeatherTable == << WRow(7, 1, 0, 35, 25), WRow(7, 1, 1, 37, 26) >>
CallWeatherTables == {WeatherTables[k] : k \in Envs} \cup {SparseWeatherTable}
WeatherLookups == [weather_data : CallWeatherTables, ts : 0..(MaxCallHours * TicksPerHour)]

HeatArgs == {0, 100, 500}
WaterAmbientArgs == {10, 20, 30}
HumidityArgs == {0, 20, 30, 60}
WaterEstimates == [cooling_type : COOLING_TYPES \cup {"foo"}, heat_rejected : HeatArgs, ambient_temp : WaterAmbientArgs, humidity : HumidityArgs]
PowerArgs == [it_power : -1..3, cooling_power : 0..2, other_power : 0..1]

\* EnergyAnalyzer.analyze_workload_efficiency: np.linspace(0, 1, 11), the
\* eleven edges of the ten workload bins
WorkloadBins == [k \in 1..11 |-> (k - 1) * (WorkloadScale \div 10)]

\* np.digitize(x, bins): the number of edges that are <= x
Digitize(x, bins) == Cardinality({k \in 1..Len(bins) : bins[k] <= x})

\* analyze_workload_efficiency: the bin index of every timestep and the
\* 'samples' of the bins that hold a timestep, bins 0 .. len(bins) - 2
analyze_workload_efficiency(workload) ==
    LET bin_indices == [t \in 1..Len(workload) |-> Digitize(workload[t], WorkloadBins) - 1]
        BinMask(i) == {t \in 1..Len(workload) : bin_indices[t] = i}
        OfBin(i) == [workload_bin |-> i, samples |-> Cardinality(BinMask(i))]
        all_bins == [k \in 1..(Len(WorkloadBins) - 1) |-> OfBin(k - 1)]
        HasPoints(m) == m.samples > 0
    IN  [bin_indices |-> bin_indices,
         bin_metrics |-> SelectSeq(all_bins, HasPoints)]

WorkloadSamples == {0, 500, 3000, 9999, WorkloadScale}
AnalyzedWorkloads == SeqsUpTo(WorkloadSamples, 3)

AmbientArgs == (0 - MaxAmbient)..MaxAmbient
CallTicks == 0..(MaxCallHours * TicksPerHour)
CallLocations == {"TX", "NY", "ZZ"}

CallOf(fn, arg) == [fn |-> fn, arg |-> arg, done |-> FALSE, value |-> 0]
CallArgs ==
    {CallOf("crac_setpoint", a) : a \in AmbientArgs}
    \cup {CallOf("default_workload", d) : d \in CallTicks}
    \cup {CallOf("LocationManager", l) : l \in CallLocations}
    \cup {CallOf("CarbonIntensityTracker", l) : l \in CallLocations}
    \cup {CallOf("get_carbon_intensity", ts) : ts \in CallTicks}
    \cup {CallOf("get_temperature", a) : a \in WeatherLookups}
    \cup {CallOf("get_wet_bulb_temperature", a) : a \in WeatherLookups}
    \cup {CallOf("estimate_water_usage", a) : a \in WaterEstimates}
    \cup {CallOf("CoolingManager", t) : t \in COOLING_TYPES \cup {"foo", "geothermal"}}
    \cup {CallOf("calculate_pue", a) : a \in PowerArgs}
    \cup {CallOf("analyze_workload_efficiency", w) : w \in AnalyzedWorkloads}

InitCalls ==
    /\ env \in Envs
    /\ pc = [e \in EngineIds |-> "unbuilt"]
    /\ attrs = [e \in EngineIds |-> NoAttrs]
    /\ scaling_factor = [e \in EngineIds |-> 0]
    /\ dc_model = [e \in EngineIds |-> NoDc]
    /\ simulation_results = [e \in EngineIds |-> EmptyResults]
    /\ frame = [e \in EngineIds |-> NoFrame]
    /\ ret = [e \in EngineIds |-> NoRet]
    /\ run_log = [e \in EngineIds |-> NoRun]
    /\ caller = [e \in EngineIds |-> Caller(FALSE)]
    /\ call \in CallArgs
    /\ iface = NoIface

\* the setpoint of a timestep whose ambient temperature is call.arg
CallCracSetpoint ==
    /\ call.fn = "crac_setpoint" /\ ~call.done
    /\ call' = [call EXCEPT !.done = TRUE, !.value = CracSetpoint(call.arg)]
    /\ UNCHANGED <<EngineVars, iface>>

\* the timestamps and the workload of a run without workload_pattern over
\* call.arg ticks
CallDefaultWorkload ==
    /\ call.fn = "default_workload" /\ ~call.done
    /\ LET timestamps == TimeGrid(0, call.arg, <<>>)
       IN  call' = [call EXCEPT
                      !.done = TRUE,
                      !.value = [timestamps |-> timestamps,
                                 workload |-> DefaultWorkload(Len(timestamps))]]
    /\ UNCHANGED <<EngineVars, iface>>

\* LocationManager(call.arg)
CallLocationManager ==
    /\ call.fn = "LocationManager" /\ ~call.done
    /\ call' = [call EXCEPT !.done = TRUE, !.value = LoadWeatherData(call.arg)]
    /\ UNCHANGED <<EngineVars, iface>>

\* CarbonIntensityTracker(call.arg)
CallCarbonIntensityTracker ==
    /\ call.fn = "CarbonIntensityTracker" /\ ~call.done
    /\ call' = [call EXCEPT !.done = TRUE, !.value = LoadCarbonData(call.arg)]
    /\ UNCHANGED <<EngineVars, iface>>

\* CarbonIntensityTracker.get_carbon_intensity(call.arg) on the data of env
CallGetCarbonIntensity ==
    /\ call.fn = "get_carbon_intensity" /\ ~call.done
    /\ call' = [call EXCEPT
                  !.done = TRUE,
                  !.value = get_carbon_intensity(CarbonTables[env], call.arg)]
    /\ UNCHANGED <<EngineVars, iface>>

\* LocationManager.get_temperature(call.arg.ts) on call.arg.weather_data
CallGetTemperature ==
    /\ call.fn = "get_temperature" /\ ~call.done
    /\ call' = [call EXCEPT
                  !.done = TRUE,
                  !.value = get_temperature(call.arg.weather_data, call.arg.ts)]
    /\ UNCHANGED <<EngineVars, iface>>

\* LocationManager.get_wet_bulb_temperature(call.arg.ts)
CallGetWetBulbTemperature ==
    /\ call.fn = "get_wet_bulb_temperature" /\ ~call.done
    /\ call' = [call EXCEPT
                  !.done = TRUE,
                  !.value = get_wet_bulb_temperature(call.arg.weather_data,
                                                     call.arg.ts)]
    /\ UNCHANGED <<EngineVars, iface>>

\* CoolingManager(call.arg.cooling_type, config).estimate_water_usage(...)
CallEstimateWaterUsage ==
    /\ call.fn = "estimate_water_usage" /\ ~call.done
    /\ call' = [call EXCEPT
                  !.done = TRUE,
                  !.value = estimate_water_usage(
                                CoolingManager(call.arg.cooling_type),
                                call.arg.heat_rejected, call.arg.ambient_temp,
                                call.arg.humidity)]
    /\ UNCHANGED <<EngineVars, iface>>

\* CoolingManager(call.arg, config)
CallCoolingManager ==
    /\ call.fn = "CoolingManager" /\ ~call.done
    /\ call' = [call EXCEPT !.done = TRUE, !.value = CoolingManager(call.arg)]
    /\ UNCHANGED <<EngineVars, iface>>

\* CoolingManager.calculate_pue(it_power, cooling_power, other_power)
CallCalculatePue ==
    /\ call.fn = "calculate_pue" /\ ~call.done
    /\ call' = [call EXCEPT
                  !.done = TRUE,
                  !.value = calculate_pue(call.arg.it_power,
                                          call.arg.cooling_power,
                                          call.arg.other_power)]
    /\ UNCHANGED <<EngineVars, iface>>

\* EnergyAnalyzer.analyze_workload_efficiency(results_data) on results
\* whose workload is call.arg
CallAnalyzeWorkloadEfficiency ==
    /\ call.fn = "analyze_workload_efficiency" /\ ~call.done
    /\ call' = [call EXCEPT !.done = TRUE,
                            !.value = analyze_workload_efficiency(call.arg)]
    /\ UNCHANGED <<EngineVars, iface>>

NextCalls ==
    \/ CallCracSetpoint
    \/ CallDefaultWorkload
    \/ CallLocationManager
    \/ CallCarbonIntensityTracker
    \/ CallGetCarbonIntensity
    \/ CallGetTemperature
    \/ CallGetWetBulbTemperature
    \/ CallEstimateWaterUsage
    \/ CallCoolingManager
    \/ CallCalculatePue
    \/ CallAnalyzeWorkloadEfficiency

SpecCalls == InitCalls /\ [][NextCalls]_vars

\* one LLMQueryInterface and the calls of its five methods
NextIface ==
    \/ \E model_id \in IfaceIds, p \in IfaceParams : IfaceCreateModel(model_id, p)
    \/ \E id_arg \in IfaceIdArgs, w \in IfaceWorkloads : IfaceRunSimulation(id_arg, w)
    \/ \E model_id \in IfaceIds : IfaceSetActiveModel(model_id)
    \/ \E id_arg \in IfaceIdArgs : IfaceProcessQuery(id_arg)
    \/ \E model_id1, model_id2 \in IfaceIds : IfaceCompareModels(model_id1, model_id2)

SpecIface == Init /\ [][NextIface]_vars

\* ------------------------------------------------------------------------
\* Properties
\* ------------------------------------------------------------------------
Built(e) == pc[e] # "unbuilt"
Returned(e) == pc[e] = "idle" /\ run_log[e].status = "returned"
JustReturned(e) == Returned(e) /\ ret[e].op = "run_simulation"
Queried(e) == pc[e] = "idle" /\ ret[e].op = "query"
Keys(dict) == DOMAIN dict

\* ceil(duration_hours) of a duration in ticks
CeilHours(ticks) == 0 - ((0 - ticks) \div TicksPerHour)
DurationTicks(e) == attrs[e].end_date - attrs[e].start_date

SameLengths(results, n) ==
    /\ Len(results.timestamps) = n
    /\ \A k \in HourlySeries : Len(results[k]) = n

\* the two engines in either order
EnginePairs == {<<1, 2>>, <<2, 1>>}

\* both runs have returned and were given the same workload argument
BothReturned(a, b) ==
    /\ Returned(a) /\ Returned(b)
    /\ run_log[a].workload_pattern = run_log[b].workload_pattern

\* C1: an engine built with the unrecognised cooling type "foo" records the
\* same cooling power, water usage, total power and carbon emissions at
\* every timestep as an engine that differs from it only in having cooling
\* type "air".
C1_FooBehavesAsAir ==
    \A pair \in EnginePairs :
        LET f == pair[1]
            a == pair[2]
        IN  (/\ BothReturned(f, a)
             /\ attrs[f].cooling_type = "foo"
             /\ attrs[a].cooling_type = "air"
             /\ [attrs[f] EXCEPT !.cooling_type = "air"] = attrs[a])
            => /\ simulation_results[f].cooling_energy
                    = simulation_results[a].cooling_energy
               /\ simulation_results[f].water_usage
                    = simulation_results[a].water_usage
               /\ simulation_results[f].total_energy
                    = simulation_results[a].total_energy
               /\ simulation_results[f].carbon_emissions
                    = simulation_results[a].carbon_emissions

\* C2 (as stated): after every run that returned, the number of timestamps
\* is ceil(duration_hours) and every per-hour series has that length.
C2_LengthIsCeilHours ==
    \A e \in EngineIds :
        Returned(e)
        => SameLengths(simulation_results[e], CeilHours(DurationTicks(e)))

\* C2 (amended): after every run that returned, the number of timestamps is
\* ceil(duration_hours), or 0 when the duration is negative, and every
\* per-hour series has that length.
C2_LengthIsCeilHoursOrZero ==
    \A e \in EngineIds :
        Returned(e)
        => SameLengths(simulation_results[e],
                       Max2(0, CeilHours(DurationTicks(e))))

\* a run over a duration that is not a whole number of hours has returned
C2_Witness ==
    \E e \in EngineIds :
        /\ Returned(e)
        /\ DurationTicks(e) % TicksPerHour # 0
        /\ Len(simulation_results[e].carbon_emissions) > 0

\* C3: at every timestep of a run that returned,
\* total_energy = (datacenter_energy + cooling_energy) * pue_overhead.
C3_TotalEnergyBalance ==
    \A e \in EngineIds :
        Returned(e)
        => \A i \in 1..Len(simulation_results[e].total_energy) :
              simulation_results[e].total_energy[i]
              = (simulation_results[e].datacenter_energy[i]
                 + simulation_results[e].cooling_energy[i])
                * attrs[e].pue_overhead

\* a run with an overhead other than 1 has returned with a non-zero record
C3_Witness ==
    \E e \in EngineIds :
        /\ Returned(e)
        /\ attrs[e].pue_overhead # 1
        /\ Len(simulation_results[e].total_energy) > 0
        /\ simulation_results[e].total_energy[1] > 0

\* C4: of two engines that differ only in capacity, the second having twice
\* the capacity of the first, given the same workload, the second records
\* exactly twice the IT power, cooling power and water usage of the first at
\* every timestep.
C4_DoublingCapacityDoubles ==
    \A pair \in EnginePairs :
        LET a == pair[1]
            b == pair[2]
        IN  (/\ BothReturned(a, b)
             /\ attrs[b].datacenter_capacity_mw
                  = 2 * attrs[a].datacenter_capacity_mw
             /\ [attrs[b] EXCEPT !.datacenter_capacity_mw =
                                    attrs[a].datacenter_capacity_mw] = attrs[a])
            => \A i \in 1..Len(simulation_results[a].timestamps) :
                 /\ simulation_results[b].datacenter_energy[i]
                      = 2 * simulation_results[a].datacenter_energy[i]
                 /\ simulation_results[b].cooling_energy[i]
                      = 2 * simulation_results[a].cooling_energy[i]
                 /\ simulation_results[b].water_usage[i]
                      = 2 * simulation_results[a].water_usage[i]

\* the run of an engine as built, on a thermal model no run has touched
RECURSIVE RunFrom(_, _, _, _, _, _, _)
RunFrom(a, sf, dc, results, weather_data, carbon_data, i) ==
    IF i > Len(results.timestamps)
    THEN results
    ELSE LET t == Timestep(a, sf, dc, results, weather_data, carbon_data, i)
         IN  RunFrom(a, sf, t.dc_model, AppendTimestep(results, t),
                     weather_data, carbon_data, i + 1)

FirstRun(e) ==
    LET timestamps == TimeGrid(attrs[e].start_date, attrs[e].end_date, <<>>)
        w == run_log[e].workload_pattern
        workload_pattern == IF w.given THEN w.values
                            ELSE DefaultWorkload(Len(timestamps))
    IN  RunFrom(attrs[e], scaling_factor[e],
                [dc_model[e] EXCEPT !.hot_water_temp = 0,
                                    !.cold_water_temp = 0,
                                    !.wet_bulb_temp = 0],
                [EmptyResults EXCEPT !.timestamps = timestamps,
                                     !.workload = workload_pattern],
                WeatherTables[env], CarbonTables[env], 1)

\* C5: the result of a run that returned is the result the same workload
\* gives on an engine of the same configuration that has never run: what
\* earlier runs left in the engine (the water fields of the thermal model,
\* the earlier result) does not influence it.
C5_RunsAreDeterministic ==
    \A e \in EngineIds :
        JustReturned(e) => simulation_results[e] = FirstRun(e)

\* a run of the water branch has returned that started on a thermal model
\* whose water fields an earlier run had written
C5_Witness ==
    \E e \in EngineIds :
        /\ JustReturned(e)
        /\ run_log[e].dirty_start
        /\ ~AirBranch(attrs[e].cooling_type)
        /\ Len(simulation_results[e].water_usage) > 1

\* C6: a workload whose length differs from the number of simulated hours is
\* rejected without any timestep being recorded, and no result is left whose
\* workload series and timestamps differ in length.
C6_WorkloadLengthValidated ==
    \A e \in EngineIds :
        (pc[e] = "idle" /\ run_log[e].status \in {"returned", "raised"})
        => /\ Len(simulation_results[e].workload)
                = Len(simulation_results[e].timestamps)
           /\ (/\ run_log[e].workload_pattern.given
               /\ Len(run_log[e].workload_pattern.values)
                    # Len(simulation_results[e].timestamps))
              => /\ run_log[e].status = "raised"
                 /\ \A k \in HourlySeries : simulation_results[e][k] = <<>>

\* C7: every engine that exists has a capacity above zero, a scaling factor
\* above zero and one supply and one return approach temperature per rack.
C7_ConfigurationValidated ==
    \A e \in EngineIds :
        Built(e)
        => /\ attrs[e].datacenter_capacity_mw > 0
           /\ scaling_factor[e] > 0
           /\ Len(attrs[e].config.RACK_SUPPLY_APPROACH_TEMP_LIST)
                = attrs[e].config.NUM_RACKS
           /\ Len(attrs[e].config.RACK_RETURN_APPROACH_TEMP_LIST)
                = attrs[e].config.NUM_RACKS

\* C8: a query answered while no record of IT power is non-zero (no run yet,
\* a run of zero hours, a series of zeros) returns the no-data error and
\* nothing else, whatever its text; a query answered after a run that
\* returned with a non-zero record of IT power does not return that error.
C8_NoDataGuard ==
    \A e \in EngineIds :
        Queried(e)
        => /\ ~AnyTruthy(simulation_results[e].datacenter_energy)
              => ret[e].raised = "none" /\ ret[e].value = NoDataError
           /\ (Returned(e) /\ AnyTruthy(simulation_results[e].datacenter_energy))
              => "error" \notin Keys(ret[e].value)

\* a query has been answered on a returned run whose series of IT power is
\* not empty and holds only zeros
C8_Witness ==
    \E e \in EngineIds :
        /\ Queried(e)
        /\ Returned(e)
        /\ Len(simulation_results[e].datacenter_energy) > 0
        /\ ~AnyTruthy(simulation_results[e].datacenter_energy)
        /\ "error" \in Keys(ret[e].value)

SummaryKeys == {"total_energy_kwh", "average_power_kw", "peak_power_kw",
                "total_carbon_emissions_tons", "energy_breakdown"}

\* C9: after a run that returned with a non-zero record of IT power, the
\* queries "summary" and "Give me a summary" return the summary record.
C9_SummaryQueryReturnsSummary ==
    \A e \in EngineIds :
        (/\ Queried(e)
         /\ ret[e].raised = "none"
         /\ ret[e].query_text \in {TextSummary, TextGiveSummary}
         /\ Returned(e)
         /\ AnyTruthy(simulation_results[e].datacenter_energy))
        => /\ SummaryKeys \subseteq Keys(ret[e].value)
           /\ Keys(ret[e].value.energy_breakdown)
                = {"datacenter_percent", "cooling_percent"}

IsSummary(dict) == "total_energy_kwh" \in Keys(dict)

\* C10: the summary of an engine with cooling type "air" has no water-usage
\* key; the summary of an engine with cooling type "water" has
\* total_water_usage_liters, equal to the sum of the water_usage series.
C10_SummaryWaterKey ==
    \A e \in EngineIds :
        (Queried(e) /\ IsSummary(ret[e].value))
        => /\ attrs[e].cooling_type = "air"
              => "total_water_usage_liters" \notin Keys(ret[e].value)
           /\ attrs[e].cooling_type = "water"
              => /\ "total_water_usage_liters" \in Keys(ret[e].value)
                 /\ ret[e].value.total_water_usage_liters
                      = Sum(simulation_results[e].water_usage)

\* a summary with a positive total water usage has been returned
C10_Witness ==
    \E e \in EngineIds :
        /\ Queried(e)
        /\ IsSummary(ret[e].value)
        /\ attrs[e].cooling_type = "water"
        /\ "total_water_usage_liters" \in Keys(ret[e].value)
        /\ ret[e].value.total_water_usage_liters > 0

\* the cooling types that use water
WaterInvolving == {"water", "hybrid", "immersion"}

\* C11: the summary of an engine whose cooling type is water-involving
\* (water, hybrid, immersion) has total_water_usage_liters, equal to the sum
\* of the water_usage series; the summary of an "air" engine has no such key.
C11_WaterInvolvingSummaryHasWater ==
    \A e \in EngineIds :
        (Queried(e) /\ IsSummary(ret[e].value))
        => /\ attrs[e].cooling_type \in WaterInvolving
              => /\ "total_water_usage_liters" \in Keys(ret[e].value)
                 /\ ret[e].value.total_water_usage_liters
                      = Sum(simulation_results[e].water_usage)
           /\ attrs[e].cooling_type = "air"
              => "total_water_usage_liters" \notin Keys(ret[e].value)

\* the engine is in a run, or has just returned from one: its attributes
\* are those the recorded timesteps were computed with
InOrJustAfterRun(e) == pc[e] = "running" \/ JustReturned(e)

\* what timestep i of the recorded result was computed from, derived from
\* the recorded timestamp, ambient temperature and workload
StepInputs(e, i) ==
    LET results == simulation_results[e]
        config == attrs[e].config
        ambient_temp == results.ambient_temperature[i]
        crac_setpoint == CracSetpoint(ambient_temp)
        rack_loads == [r \in 1..config.NUM_RACKS |-> results.workload[i] * 100]
        it == ComputeITLoad(config, rack_loads, crac_setpoint)
        avg_crac_return_temp ==
            AvgCRACReturnTemp(config.RACK_RETURN_APPROACH_TEMP_LIST,
                              it.rack_outlet_temps)
    IN  [crac_setpoint |-> crac_setpoint,
         avg_crac_return_temp |-> avg_crac_return_temp,
         wet_bulb |-> get_wet_bulb_temperature(WeatherTables[env],
                                               results.timestamps[i]),
         hvac |-> HVACPower(crac_setpoint, avg_crac_return_temp, ambient_temp,
                            dc_model[e].total_DC_full_load * scaling_factor[e])]

\* C12: at every timestep of a run with cooling type "air" the water usage
\* is 0 and the cooling power is (crac_fan + chiller) * efficiency factor *
\* scaling factor: the cooling tower fan and the pumps do not count.
C12_AirCoolingPower ==
    \A e \in EngineIds :
        (InOrJustAfterRun(e) /\ attrs[e].cooling_type = "air")
        => \A i \in 1..Len(simulation_results[e].cooling_energy) :
              /\ simulation_results[e].water_usage[i] = 0
              /\ simulation_results[e].cooling_energy[i]
                 = (StepInputs(e, i).hvac.crac_fan_power
                    + StepInputs(e, i).hvac.chiller_power)
                   * attrs[e].cooling_efficiency_factor * scaling_factor[e]

\* an "air" run with an efficiency factor other than 1 has returned with a
\* record whose chiller power is not zero
C12_Witness ==
    \E e \in EngineIds :
        /\ JustReturned(e)
        /\ attrs[e].cooling_type = "air"
        /\ attrs[e].cooling_efficiency_factor > 1
        /\ Len(simulation_results[e].cooling_energy) > 0
        /\ StepInputs(e, 1).hvac.chiller_power > 0
        /\ StepInputs(e, 1).hvac.ct_fan_power > 0

\* C13: at every timestep of a run with a water-involving cooling type the
\* cooling power is (crac_fan + ct_fan + chiller + cw_pump + ct_pump) *
\* efficiency factor * scaling factor, and the water usage is the cooling
\* tower's water usage for hot water = average CRAC return temperature, cold
\* water = CRAC setpoint and wet bulb = the provider's value for that
\* timestamp, times the scaling factor.
C13_WaterCoolingPower ==
    \A e \in EngineIds :
        (InOrJustAfterRun(e) /\ attrs[e].cooling_type \in WaterInvolving)
        => \A i \in 1..Len(simulation_results[e].cooling_energy) :
              LET x == StepInputs(e, i)
              IN  /\ simulation_results[e].cooling_energy[i]
                     = (x.hvac.crac_fan_power + x.hvac.ct_fan_power
                        + x.hvac.chiller_power + x.hvac.cw_pump_power
                        + x.hvac.ct_pump_power)
                       * attrs[e].cooling_efficiency_factor * scaling_factor[e]
                  /\ simulation_results[e].water_usage[i]
                     = CoolingTowerWaterUsage(
                          [hot_water_temp |-> x.avg_crac_return_temp,
                           cold_water_temp |-> x.crac_setpoint,
                           wet_bulb_temp |-> x.wet_bulb])
                       * scaling_factor[e]

\* a "water" run of two hours with different wet-bulb temperatures has
\* returned
C13_Witness ==
    \E e \in EngineIds :
        /\ JustReturned(e)
        /\ attrs[e].cooling_type = "water"
        /\ Len(simulation_results[e].water_usage) = 2
        /\ StepInputs(e, 1).wet_bulb # StepInputs(e, 2).wet_bulb
        /\ simulation_results[e].water_usage[2] > 0
        /\ scaling_factor[e] > 1

\* C14: a run replaces the earlier result: the step that starts a run leaves
\* every per-hour series empty and the timestamps of this run only, and the
\* step that returns from a run leaves series whose length is the hour
\* count of this run, however many runs came before.
C14_RerunReplaces ==
    [][\A e \in EngineIds :
        LET grid == TimeGrid(attrs[e].start_date, attrs[e].end_date, <<>>)
        IN  /\ (pc[e] = "idle" /\ pc'[e] = "running")
               => /\ simulation_results'[e].timestamps = grid
                  /\ \A k \in HourlySeries : simulation_results'[e][k] = <<>>
            /\ (pc[e] = "running" /\ pc'[e] = "idle"
                /\ run_log'[e].status = "returned")
               => SameLengths(simulation_results'[e], Len(grid))]_vars

\* a run of two hours has returned on an engine in which an earlier run had
\* left the water fields of the thermal model written
C14_Witness ==
    \E e \in EngineIds :
        /\ JustReturned(e)
        /\ run_log[e].dirty_start
        /\ Len(simulation_results[e].timestamps) = 2
        /\ Len(simulation_results[e].total_energy) = 2

\* the step in which run_simulation returns
ReturnStep(e) ==
    pc[e] = "running" /\ pc'[e] = "idle" /\ run_log'[e].status = "returned"

\* C15: the result a caller was handed by a run that returned is not changed
\* by any later operation of the engine (a run, a query and its data frame,
\* load_research_paper_model): it changes only by being replaced with the
\* result of the next run that returns.
C15_ReturnedResultImmutable ==
    [][\A e \in EngineIds :
        (caller[e].has /\ ~ReturnStep(e))
        => caller'[e].value = caller[e].value]_vars

\* a caller holds the result of an earlier run while a later run of the
\* engine, started after a query, has recorded a timestep
C15_Witness ==
    \E e \in EngineIds :
        /\ caller[e].has
        /\ ~caller[e].same_object
        /\ pc[e] = "running"
        /\ ret[e].op = "query"
        /\ Len(simulation_results[e].total_energy) > 0
        /\ Len(caller[e].value.total_energy) > 0
        /\ caller[e].value # simulation_results[e]

\* C16: during a run every hourly step extends each per-hour series by
\* exactly one element and keeps every element appended before.
C16_AppendOnlyByOne ==
    [][\A e \in EngineIds :
        (pc[e] = "running" /\ simulation_results'[e] # simulation_results[e])
        => \A k \in HourlySeries :
              LET before == simulation_results[e][k]
                  after == simulation_results'[e][k]
              IN  /\ Len(after) = Len(before) + 1
                  /\ SubSeq(after, 1, Len(before)) = before]_vars

\* C18: at every timestep i of a run that returned, carbon_emissions[i] is
\* total_energy[i] * carbon_intensity[i] / 1e6, and carbon_intensity[i] and
\* ambient_temperature[i] are the providers' values for timestamps[i].
C18_CarbonEmissionsAligned ==
    \A e \in EngineIds :
        Returned(e)
        => \A i \in 1..Len(simulation_results[e].carbon_emissions) :
              LET results == simulation_results[e]
              IN  /\ results.carbon_emissions[i]
                     = (results.total_energy[i] * results.carbon_intensity[i])
                       \div Mega
                  /\ results.carbon_intensity[i]
                     = get_carbon_intensity(CarbonTables[env],
                                            results.timestamps[i])
                  /\ results.ambient_temperature[i]
                     = get_temperature(WeatherTables[env],
                                       results.timestamps[i])

\* a run of two hours with different carbon intensities and different
\* ambient temperatures has returned with non-zero emissions
C18_Witness ==
    \E e \in EngineIds :
        /\ Returned(e)
        /\ Len(simulation_results[e].carbon_emissions) = 2
        /\ simulation_results[e].carbon_intensity[1]
           # simulation_results[e].carbon_intensity[2]
        /\ simulation_results[e].ambient_temperature[1]
           # simulation_results[e].ambient_temperature[2]
        /\ simulation_results[e].carbon_emissions[2] > 0

Called(fn) == call.fn = fn /\ call.done

\* C17: for every ambient temperature the CRAC setpoint lies in [16.0, 22.0]
\* (80 .. 110 fifths), is 18.0 + 0.2 * (ambient - 20.0) when that lies in
\* the range, 16.0 when ambient <= 10 and 22.0 when ambient >= 40; it is a
\* function of the ambient temperature alone.
C17_SetpointClamped ==
    Called("crac_setpoint")
    => /\ call.value \in 80..110
       /\ (10 <= call.arg /\ call.arg <= 40)
          => call.value = 90 + (call.arg - 20)
       /\ call.arg <= 10 => call.value = 80
       /\ call.arg >= 40 => call.value = 110

\* the setpoint of an ambient temperature above 40 degrees has been computed
C17_Witness == Called("crac_setpoint") /\ call.arg = 45 /\ call.value = 110

\* the hours 08:00 up to 20:00
BusinessHour(hour) == 8 <= hour /\ hour < 20

\* C19: the workload synthesized when none is supplied has one value per
\* simulated hour, each in [0, 1]; the value depends only on the hour of day
\* of its timestamp; the values of the hours from 08:00 to 20:00 are at
\* least as high as every value of the other hours.
C19_DefaultWorkloadIsDiurnal ==
    Called("default_workload")
    => LET ts == call.value.timestamps
           w == call.value.workload
       IN  /\ Len(w) = Len(ts)
           /\ Len(ts) = CeilHours(call.arg)
           /\ \A i \in 1..Len(w) : 0 <= w[i] /\ w[i] <= WorkloadScale
           /\ \A i, j \in 1..Len(w) :
                 /\ HourOf(ts[i]) = HourOf(ts[j]) => w[i] = w[j]
                 /\ (BusinessHour(HourOf(ts[i])) /\ ~BusinessHour(HourOf(ts[j])))
                    => w[i] >= w[j]

\* a default workload of more than two days has been synthesized
C19_Witness ==
    /\ Called("default_workload")
    /\ Len(call.value.workload) > 2 * HoursPerDay
    /\ call.value.workload[1] = call.value.workload[1 + 2 * HoursPerDay]
    /\ call.value.workload[9] > call.value.workload[8]

\* C20: a provider constructed for a location code that has no data mapping
\* raises an error, and a provider that was constructed serves the data of
\* the location it was constructed for.
C20_UnknownLocationIsFatal ==
    /\ (Called("LocationManager") /\ call.arg \notin WEATHER_FILES)
       => call.value.raised # "none"
    /\ (Called("CarbonIntensityTracker") /\ call.arg \notin CI_FILES)
       => call.value.raised # "none"
    /\ ((Called("LocationManager") \/ Called("CarbonIntensityTracker"))
        /\ call.value.raised = "none")
       => call.value.file = call.arg

\* the rows of carbon_data whose month, day and hour are those of ts,
\* whatever their year
SameMonthDayHour(carbon_data, ts) ==
    LET Matches(r) == r.month = StartMonth /\ r.day = DayOf(ts) /\ r.hour = HourOf(ts)
    IN  SelectSeq(carbon_data, Matches)

\* C21: get_carbon_intensity returns the mean of the rows whose month, day
\* and hour are those of the timestamp, whatever their year, when there is
\* such a row, and the mean of the rows of the same hour of day only when
\* there is none.
C21_LookupByMonthDayHour ==
    Called("get_carbon_intensity")
    => LET carbon_data == CarbonTables[env]
           matching == SameMonthDayHour(carbon_data, call.arg)
           SameHour(r) == r.hour = HourOf(call.arg)
           hourly == SelectSeq(carbon_data, SameHour)
       IN  /\ Len(matching) > 0
              => call.value = Mean(Column(matching, "carbon_intensity"))
           /\ (Len(matching) = 0 /\ Len(hourly) > 0)
              => call.value = Mean(Column(hourly, "carbon_intensity"))

\* the rows of weather_data whose month, day and hour are those of ts
WeatherMatching(weather_data, ts) ==
    LET Matches(r) == r.month = StartMonth /\ r.day = DayOf(ts) /\ r.hour = HourOf(ts)
    IN  SelectSeq(weather_data, Matches)

\* the rows of weather_data of the month of the simulated timestamps
WeatherOfMonth(weather_data) ==
    LET InMonth(r) == r.month = StartMonth
    IN  SelectSeq(weather_data, InMonth)

\* the value C22 allows for one column
DocumentedAggregate(weather_data, ts, col, value) ==
    LET matching == WeatherMatching(weather_data, ts)
        month_data == WeatherOfMonth(weather_data)
    IN  IF Len(matching) > 0 THEN value = Mean(Column(matching, col))
        ELSE Len(month_data) > 0 /\ value = Mean(Column(month_data, col))

\* C22: get_temperature and get_wet_bulb_temperature return the mean of the
\* rows matching the month, day and hour of the timestamp if there are any,
\* otherwise the mean of the rows of the same month, and never anything
\* that is not one of these two aggregates.
C22_AlwaysAnAggregate ==
    /\ Called("get_temperature")
       => DocumentedAggregate(call.arg.weather_data, call.arg.ts,
                              "temperature", call.value)
    /\ Called("get_wet_bulb_temperature")
       => DocumentedAggregate(call.arg.weather_data, call.arg.ts,
                              "wet_bulb", call.value)

\* C23: estimate_water_usage returns 0 for the type air and, for water,
\* hybrid and immersion, heat_rejected * 1.8 / 1000
\* * (1 + max(0, (ambient - 20) / 100)) * (1 - min(0.3, humidity / 100))
\* * the water-usage factor of the type.
C23_WaterEstimateOfEveryType ==
    (Called("estimate_water_usage") /\ call.arg.cooling_type \in COOLING_TYPES)
    => IF call.arg.cooling_type = "air" THEN call.value = 0
       ELSE call.value
            = call.arg.heat_rejected * 18
              * (100 + Max2(0, call.arg.ambient_temp - 20))
              * (100 - Min2(30, call.arg.humidity))
              * cooling_info(call.arg.cooling_type).water_usage

\* C24: a CoolingManager built with a type outside air, water, immersion,
\* hybrid raises nothing and has cooling_type air, efficiency factor 1.0,
\* water usage 0.0, COP 3.0 and fan power factor 1.0; built with one of
\* the four types it has that type and that type's profile.
C24_UnknownTypeIsAir ==
    Called("CoolingManager")
    => /\ call.value.raised = "none"
       /\ call.arg \notin {"air", "water", "immersion", "hybrid"}
          => /\ call.value.cooling_type = "air"
             /\ call.value.cooling_info.efficiency_factor = 10
             /\ call.value.cooling_info.water_usage = 0
             /\ call.value.params.coef_of_performance = 30
             /\ call.value.params.fan_power_factor = 10
       /\ call.arg \in {"air", "water", "immersion", "hybrid"}
          => /\ call.value.cooling_type = call.arg
             /\ call.value.cooling_info = cooling_info(call.arg)
             /\ call.value.params = InitializeCoolingParams(call.arg)

\* a manager has been built with an unknown type, and it is an air manager
C24_Witness ==
    /\ Called("CoolingManager")
    /\ call.arg = "geothermal"
    /\ call.value.cooling_type = "air"

\* C25: calculate_pue returns (it_power + cooling_power + other_power)
\* / it_power when it_power > 0 and exactly 1.0 when it_power <= 0, and its
\* divisor is never zero.
C25_PueGuarded ==
    Called("calculate_pue")
    => /\ call.arg.it_power > 0
          => call.value = Ratio(call.arg.it_power + call.arg.cooling_power
                                + call.arg.other_power, call.arg.it_power)
       /\ call.arg.it_power <= 0 => call.value = Ratio(1, 1)
       /\ call.value[2] # 0

\* the PUE of zero IT power with non-zero cooling power has been computed
C25_Witness ==
    /\ Called("calculate_pue")
    /\ call.arg.it_power = 0
    /\ call.arg.cooling_power > 0
    /\ call.value = Ratio(1, 1)

\* a built engine's scaling_factor is positive and is the quotient of its
\* capacity in watts and the full-load capacity of its thermal model
ScalingFactorPositive ==
    \A e \in EngineIds :
        Built(e)
        => /\ scaling_factor[e] > 0
           /\ scaling_factor[e]
              = ScalingFactor(attrs[e].datacenter_capacity_mw,
                              dc_model[e].total_DC_full_load)

\* no operation on a built engine changes its scaling_factor
ScalingFactorKept ==
    \A e \in EngineIds : Built(e) => scaling_factor'[e] = scaling_factor[e]

\* C26: scaling_factor is datacenter_capacity_mw * 1e6 / the full-load
\* capacity of the thermal model, is positive in every state of a built
\* engine, and no operation after construction (run_simulation, query,
\* load_research_paper_model) changes it.
C26_ScalingFactorFixed == [](ScalingFactorPositive) /\ [][ScalingFactorKept]_vars

\* C27: the timestamps of a run start at the start date at 00:00, each is
\* exactly one hour after its predecessor, each is strictly before the end
\* date, entry i of the provider series is the provider's value for
\* timestamps[i], no series is longer than the grid, and the grid of a
\* duration that is not positive is empty.
C27_HourlyGrid ==
    \A e \in EngineIds :
        Built(e)
        => LET results == simulation_results[e]
               ts == results.timestamps
           IN  /\ \A i \in 1..Len(ts) :
                     /\ ts[i] = attrs[e].start_date + (i - 1) * TicksPerHour
                     /\ ts[i] < attrs[e].end_date
               /\ Len(ts) > 0
                  => ts[1] = attrs[e].start_date /\ ts[1] % TicksPerDay = 0
               /\ DurationTicks(e) <= 0 => ts = <<>>
               /\ \A k \in HourlySeries : Len(results[k]) <= Len(ts)
               /\ \A i \in 1..Len(results.ambient_temperature) :
                     results.ambient_temperature[i]
                     = get_temperature(WeatherTables[env], ts[i])
               /\ \A i \in 1..Len(results.carbon_intensity) :
                     results.carbon_intensity[i]
                     = get_carbon_intensity(CarbonTables[env], ts[i])

\* a run over one and a half hours has returned with two timestamps
C27_Witness ==
    \E e \in EngineIds :
        /\ Returned(e)
        /\ DurationTicks(e) = TicksPerHour + 1
        /\ Len(simulation_results[e].timestamps) = 2
        /\ Len(simulation_results[e].ambient_temperature) = 2

\* C28: whenever run_simulation has exited, by returning or by raising in
\* the middle of an hour, the seven per-hour series of simulation_results
\* have one and the same length.
C28_NoPartialTimestep ==
    \A e \in EngineIds :
        (pc[e] = "idle" /\ ret[e].op = "run_simulation")
        => \A k1, k2 \in HourlySeries :
              Len(simulation_results[e][k1]) = Len(simulation_results[e][k2])

\* the last call of the interface returned a result that is not an error
IfaceAnswered(op) ==
    iface.ret.op = op /\ iface.ret.error = "none" /\ iface.ret.raised = "none"

\* a run_simulation of the engine registered under model_id has returned
\* since the id was last created
RanSinceCreated(model_id) ==
    /\ model_id \in DOMAIN iface.models
    /\ iface.models[model_id].model.completed

\* process_query and compare_models answer only for ids whose engine has
\* run; create_model leaves has_data False; active_model is None or
\* registered
IfaceAnswersAfterRun ==
    /\ IfaceAnswered("process_query") => RanSinceCreated(iface.ret.used)
    /\ IfaceAnswered("compare_models")
       => RanSinceCreated(iface.ret.model_id) /\ RanSinceCreated(iface.ret.model_id2)
    /\ IfaceAnswered("create_model")
       => ~iface.models[iface.ret.model_id].has_data
    /\ iface.active_model = None \/ iface.active_model \in DOMAIN iface.models

\* the last call was a lookup that named ids, one of which the registry
\* did not hold when the call was made
NamedUnregistered(ids) ==
    /\ iface.ret.op \in {"run_simulation", "set_active_model", "process_query", "compare_models"}
    /\ \/ iface.ret.model_id \in ids \ DOMAIN iface.before.models
       \/ iface.ret.model_id2 \in ids \ DOMAIN iface.before.models

\* the last call returned an error and changed nothing
RefusedUnchanged ==
    /\ iface.ret.error # "none"
    /\ iface.models = iface.before.models
    /\ iface.active_model = iface.before.active_model

\* C29: process_query and compare_models return a result that is not an
\* error only for ids whose run_simulation has completed since the id was
\* last created, create_model leaves has_data False, active_model is None
\* or a registered id, and every call naming an id that is not registered
\* returns an error and leaves models, has_data and active_model unchanged.
C29_UnregisteredIdRefused ==
    /\ IfaceAnswersAfterRun
    /\ NamedUnregistered(IfaceIds) => RefusedUnchanged

\* the guards as they hold: a call naming a non-empty id that is not
\* registered is refused, and a call of run_simulation or process_query
\* whose id is the empty string acts on the active model
IfaceGuardsNonEmptyIds ==
    /\ IfaceAnswersAfterRun
    /\ NamedUnregistered(IfaceIds \ {""}) => RefusedUnchanged
    /\ (iface.ret.op \in {"run_simulation", "process_query"} /\ iface.ret.model_id = "")
       => iface.ret.used = iface.before.active_model

\* C30: every timestep whose workload lies in [0, 1], 0 and 1.0 included,
\* is counted in exactly one of the ten bins: the 'samples' of the returned
\* bins sum to the number of timesteps.
C30_EveryTimestepBinned ==
    Called("analyze_workload_efficiency")
    => /\ \A t \in 1..Len(call.arg) :
             \E m \in 1..Len(call.value.bin_metrics) :
                call.value.bin_metrics[m].workload_bin = call.value.bin_indices[t]
       /\ Sum([m \in 1..Len(call.value.bin_metrics) |->
                  call.value.bin_metrics[m].samples])
          = Len(call.arg)

====
